---- MODULE Spec2Model ----
(***************************************************************************)
(* List-view drag-reorder of a block tree: the tree-indexing functions,    *)
(* the expansion reducer, the position ledger, the per-tick drag decision  *)
(* (moveItem), the drop (dropItem) with its move command and settling      *)
(* timer, and the branch renderer's row numbering.                         *)
(***************************************************************************)
EXTENDS Integers, Sequences, FiniteSets, TLC

VARIABLES
    clientIdsTree,  \* canonical tree, read from the store (useListViewClientIds)
    tree,           \* speculative tree (useState( clientIdsTree ))
    blocks,         \* the tree handed to ListViewBranch by the last render
    draggingId,     \* identity of the dragged block, "" when falsy
    dropped,        \* the 'recently dropped' flag
    expandedState,  \* identity -> BOOLEAN, absent means expanded
    positions,      \* positionsRef.current: row index -> entry
    lastTarget,     \* lastTarget.current: Null or the pending placement
    inFlight,       \* move commands issued and not yet settled by the store
    timers,         \* settling timers set and not yet fired
    issued,         \* number of moveBlocksToPosition calls made so far
    drags,          \* number of drags started so far
    drops,          \* number of dropItem calls made so far
    decided,        \* the placement computed by the latest qualifying tick
    toggles,        \* number of expand/collapse calls made so far
    last,           \* the inputs and outcome of the tick that ran last, if a tick did
    call,           \* the last direct application of a function, with its result
    heldParent,     \* the canonical parent the dragged block had when grabbed
    owners          \* which command each entry of inFlight and each timer is of

vars == <<clientIdsTree, tree, blocks, draggingId, dropped, expandedState,
          positions, lastTarget, inFlight, timers, issued, drags, drops,
          decided, toggles, last, call, heldParent, owners>>

----------------------------------------------------------------------------
(* Bounds of the model *)

MaxDrags == 1
MaxToggles == 1
MaxNodes == 4

(* Program constants *)

ITEM_HEIGHT == 36
UP == "up"
DOWN == "down"

(* Inputs *)

Ids == {"A", "B", "C", "D"}
Translates == {18, 20}
SignedTranslates == {-20, 20}
Velocities == {<<>>, <<-1>>, <<0>>, <<1>>}

Leaf(id) == [clientId |-> id, innerBlocks |-> <<>>]
Block(id, inner) == [clientId |-> id, innerBlocks |-> inner]

InitTrees ==
    { <<Block("A", <<Leaf("B"), Leaf("C")>>), Leaf("D")>>,
      <<Block("A", <<Block("B", <<Leaf("C")>>)>>)>> }

\* Identities expand and collapse are called with; "" is the missing one.
ToggleIds == {"A", "B", ""}

\* Every ordered forest whose nodes carry exactly the identities of S, once
\* each: a first tree with root r over the identities I, then the rest.
RECURSIVE Forests(_)
Forests(S) ==
    IF S = {} THEN {<<>>}
    ELSE UNION { UNION { { <<Block(r, inner)>> \o rest :
                             inner \in Forests(I),
                             rest \in Forests((S \ {r}) \ I) } :
                         I \in SUBSET (S \ {r}) } :
                 r \in S }

\* The trees with unique identities of at most MaxNodes nodes.
Trees ==
    UNION { Forests(S) : S \in {X \in SUBSET Ids : Cardinality(X) <= MaxNodes} }

\* Every expansion state over Ids.
ExpansionStates == UNION { [D -> BOOLEAN] : D \in SUBSET Ids }

\* An identity no tree holds, and nodes no tree holds.
Absent == "Z"
NewItems == {Leaf("E"), Block("E", <<Leaf("F")>>)}

Null == [clientId |-> "", originalParent |-> "", targetId |-> "",
         targetIndex |-> -2, isNull |-> TRUE]

Abs(x) == IF x < 0 THEN -x ELSE x
Max(a, b) == IF a > b THEN a ELSE b

----------------------------------------------------------------------------
(* Expansion state *)

\* Mutant: the previous state is not spread into the new one.
expandedReplacing(state, action) ==
    CASE action.type = "expand" -> (action.clientId :> TRUE)
      [] action.type = "collapse" -> (action.clientId :> FALSE)
      [] OTHER -> state

expanded(state, action) ==
    CASE action.type = "expand" -> (action.clientId :> TRUE) @@ state
      [] action.type = "collapse" -> (action.clientId :> FALSE) @@ state
      [] OTHER -> state

\* expandedState[ clientId ] ?? true
isExpandedIn(state, clientId) ==
    IF clientId \in DOMAIN state THEN state[clientId] ELSE TRUE

\* expand( clientId ) and collapse( clientId ): no dispatch without an
\* identity.
dispatched(state, type, clientId) ==
    IF clientId = "" THEN state
    ELSE expanded(state, [type |-> type, clientId |-> clientId])

----------------------------------------------------------------------------
(* Tree indexing *)

RECURSIVE removeLoop(_, _, _, _, _, _)
removeLoop(t, id, parentId, index, newTree, removeParentId) ==
    IF index > Len(t)
    THEN [newTree |-> newTree, removeParentId |-> removeParentId]
    ELSE LET block == t[index] IN
         IF block.clientId # id
         THEN IF Len(block.innerBlocks) > 0
              THEN LET r == removeLoop(block.innerBlocks, id, block.clientId,
                                       1, <<>>, "")
                   IN removeLoop(t, id, parentId, index + 1,
                          Append(newTree,
                                 [block EXCEPT !.innerBlocks = r.newTree]),
                          IF r.removeParentId # "" THEN r.removeParentId
                                                   ELSE removeParentId)
              ELSE removeLoop(t, id, parentId, index + 1,
                              Append(newTree, block), removeParentId)
         ELSE removeLoop(t, id, parentId, index + 1, newTree, parentId)

\* Mutant: nested branches are not searched.
removeItemTopLevel(t, id) ==
    [newTree |-> SelectSeq(t, LAMBDA b : b.clientId # id),
     removeParentId |-> ""]

\* Mutant: the parent is reported as undefined rather than ''.
removeItemNoSentinel(t, id) ==
    LET r == removeLoop(t, id, "", 1, <<>>, "undefined")
    IN [newTree |-> r.newTree, removeParentId |-> r.removeParentId]

removeItemFromTree(t, id) == removeLoop(t, id, "", 1, <<>>, "")

RECURSIVE addLoop(_, _, _, _, _, _, _, _, _)
addLoop(t, id, item, insertAfter, parentId, index, newTree, targetId, targetIndex) ==
    IF index > Len(t)
    THEN [newTree |-> newTree, targetId |-> targetId,
          targetIndex |-> targetIndex]
    ELSE LET block == t[index] IN
         IF block.clientId = id
         THEN IF insertAfter
              THEN addLoop(t, id, item, insertAfter, parentId, index + 1,
                           newTree \o <<block, item>>, parentId,
                           Len(newTree) + 1)
              ELSE addLoop(t, id, item, insertAfter, parentId, index + 1,
                           newTree \o <<item, block>>, parentId,
                           Len(newTree))
         ELSE IF Len(block.innerBlocks) > 0
              THEN LET r == addLoop(block.innerBlocks, id, item, insertAfter,
                                    block.clientId, 1, <<>>, "", -1)
                   IN addLoop(t, id, item, insertAfter, parentId, index + 1,
                          Append(newTree,
                                 [block EXCEPT !.innerBlocks = r.newTree]),
                          IF r.targetId # "" THEN r.targetId ELSE targetId,
                          Max(targetIndex, r.targetIndex))
              ELSE addLoop(t, id, item, insertAfter, parentId, index + 1,
                           Append(newTree, block), targetId, targetIndex)

\* Mutant: insertAfter is ignored.
addItemAlwaysAfter(t, id, item, insertAfter) ==
    addLoop(t, id, item, TRUE, "", 1, <<>>, "", -1)

\* Mutant: the item is inserted without its inner blocks.
addItemShallow(t, id, item, insertAfter) ==
    addLoop(t, id, Leaf(item.clientId), insertAfter, "", 1, <<>>, "", -1)

addItemToTree(t, id, item, insertAfter) ==
    addLoop(t, id, item, insertAfter, "", 1, <<>>, "", -1)

----------------------------------------------------------------------------
(* Tree renderer: rows and their flattened numbering *)

RECURSIVE countBlocks(_, _)
RECURSIVE countReduce(_, _, _, _)

countReducer(state, count, block) ==
    IF isExpandedIn(state, block.clientId) /\ Len(block.innerBlocks) > 0
    THEN count + countBlocks(block, state)
    ELSE count + 1

\* innerBlocks.reduce( countReducer( expandedState ), 0 )
countReduce(inner, state, index, count) ==
    IF index > Len(inner) THEN count
    ELSE countReduce(inner, state, index + 1,
                     countReducer(state, count, inner[index]))

\* Mutant: a collapsed block counts its hidden descendants.
countBlocksIgnoringCollapse(block, state) ==
    1 + countReduce(block.innerBlocks, state, 1, 0)

countBlocks(block, state) ==
    IF isExpandedIn(state, block.clientId)
    THEN 1 + countReduce(block.innerBlocks, state, 1, 0)
    ELSE 1

RECURSIVE branchLoop(_, _, _, _, _, _)
branchLoop(bl, parentBlockClientId, state, index, nextPosition, rows) ==
    IF index > Len(bl) THEN rows
    ELSE LET block == bl[index]
             np == IF index > 1
                   THEN nextPosition + countBlocks(bl[index - 1], state)
                   ELSE nextPosition
             hasNestedBranch == Len(block.innerBlocks) > 0
             isExpanded == hasNestedBranch
                           /\ isExpandedIn(state, block.clientId)
             row == [clientId |-> block.clientId,
                     parentId |-> parentBlockClientId,
                     listPosition |-> np,
                     position |-> index,
                     rowCount |-> Len(bl),
                     block |-> block]
             inner == IF hasNestedBranch /\ isExpanded
                      THEN branchLoop(block.innerBlocks, block.clientId,
                                      state, 1, np + 1, <<>>)
                      ELSE <<>>
         IN branchLoop(bl, parentBlockClientId, state, index + 1, np,
                       (rows \o <<row>>) \o inner)

\* The rows one render pass mounts, in render order.
ListViewBranch(bl, state) == branchLoop(bl, "", state, 1, 0, <<>>)

----------------------------------------------------------------------------
(* Position ledger *)

setPosition(posn, key, offset) ==
    [i \in DOMAIN posn \cup {key} |-> IF i = key THEN offset ELSE posn[i]]

\* What a row writes for itself when it renders.
rowEntry(row) == [clientId |-> row.clientId, parentId |-> row.parentId]

RECURSIVE renderPass(_, _, _)
renderPass(posn, rows, index) ==
    IF index > Len(rows) THEN posn
    ELSE renderPass(setPosition(posn, rows[index].listPosition,
                                rowEntry(rows[index])),
                    rows, index + 1)

\* Mutant: the dropped flag is ignored.
blocksPropDraggingOnly(dragging, isDropped, speculative, canonical) ==
    IF dragging # "" THEN speculative ELSE canonical

\* blocks={ draggingId || dropped ? tree : clientIdsTree }
blocksProp(dragging, isDropped, speculative, canonical) ==
    IF dragging # "" \/ isDropped THEN speculative ELSE canonical

\* The re-render that follows a handler: the branch receives its tree and
\* every mounted row writes its ledger entry.
Render ==
    /\ blocks' = blocksProp(draggingId', dropped', tree', clientIdsTree')
    /\ positions' = renderPass(positions,
                               ListViewBranch(blocks', expandedState'), 1)
----------------------------------------------------------------------------
(* The document store's side of the move command *)

RECURSIVE nodesLoop(_, _, _, _)
nodesLoop(t, parentId, index, acc) ==
    IF index > Len(t) THEN acc
    ELSE LET b == t[index]
             n == [clientId |-> b.clientId, parentId |-> parentId,
                   index |-> index - 1, block |-> b]
         IN nodesLoop(t, parentId, index + 1,
                      (acc \o <<n>>) \o nodesLoop(b.innerBlocks, b.clientId,
                                                   1, <<>>))

\* Every node of a tree in depth-first order, with its parent and its
\* 0-based index among its siblings.
Nodes(t) == nodesLoop(t, "", 1, <<>>)

\* The node of a tree that carries an identity.
nodeOf(t, id) ==
    LET ns == Nodes(t) IN ns[CHOOSE i \in 1..Len(ns) : ns[i].clientId = id]

IdsOf(t) == {Nodes(t)[i].clientId : i \in 1..Len(Nodes(t))}

\* The parent of a node in a tree, "" at top level and when it is not there.
ParentIn(t, id) == IF id \in IdsOf(t) THEN nodeOf(t, id).parentId ELSE ""

RECURSIVE withoutNode(_, _)
withoutNode(t, id) ==
    IF t = <<>> THEN <<>>
    ELSE IF Head(t).clientId = id THEN withoutNode(Tail(t), id)
    ELSE <<[Head(t) EXCEPT !.innerBlocks = withoutNode(@, id)]>>
         \o withoutNode(Tail(t), id)

insertAt(s, index, e) == (SubSeq(s, 1, index) \o <<e>>) \o SubSeq(s, index + 1, Len(s))

RECURSIVE insertChild(_, _, _, _)
insertChild(t, parentId, index, node) ==
    IF parentId = "" THEN insertAt(t, index, node)
    ELSE [i \in 1..Len(t) |->
            IF t[i].clientId = parentId
            THEN [t[i] EXCEPT !.innerBlocks = insertAt(@, index, node)]
            ELSE [t[i] EXCEPT !.innerBlocks =
                                insertChild(@, parentId, index, node)]]

childrenOf(t, parentId) ==
    LET ns == Nodes(t) IN
    Cardinality({i \in 1..Len(ns) : ns[i].parentId = parentId})

\* "move node N from (parent P1) to (parent P2, index I)"; a command that
\* does not fit the store's tree leaves the tree as it is.
moveBlocksToPosition(t, cmd) ==
    LET ns == Nodes(t)
        at == {i \in 1..Len(ns) : ns[i].clientId = cmd.clientId}
        n == ns[CHOOSE i \in at : \A j \in at : i <= j]
        rest == withoutNode(t, cmd.clientId)
        restIds == {Nodes(rest)[i].clientId : i \in 1..Len(Nodes(rest))}
    IN IF at = {} THEN t
       ELSE IF n.parentId # cmd.originalParent THEN t
       ELSE IF cmd.targetId # "" /\ cmd.targetId \notin restIds THEN t
       ELSE IF cmd.targetIndex < 0
               \/ cmd.targetIndex > childrenOf(rest, cmd.targetId) THEN t
       ELSE insertChild(rest, cmd.targetId, cmd.targetIndex, n.block)

----------------------------------------------------------------------------
(* Drag controller *)

\* velocity?.get() ?? 0
velocityGet(velocity) == IF velocity = <<>> THEN 0 ELSE velocity[1]

\* Mutant: the zero-velocity return is missing.
noDirectionNever(v) == FALSE

\* if ( v === 0 ) { return; }
noDirection(v) == v = 0

direction(v) == IF v > 0 THEN DOWN ELSE UP

\* Mutant: the insertAfter argument is inverted.
insertAfterInverted(dir) == dir = UP

\* the insertAfter argument: direction === DOWN
insertAfterFor(dir) == dir = DOWN

\* Mutant: the threshold comparison is not strict.
pastThresholdInclusive(translate) == 2 * Abs(translate) >= ITEM_HEIGHT

\* Math.abs( translate ) > ITEM_HEIGHT / 2
pastThreshold(translate) == 2 * Abs(translate) > ITEM_HEIGHT

\* Mutant: the parent check is missing.
breakOutAnyLevel(position, dir, isFirstChild, isLastChild) ==
    \/ dir = UP /\ isFirstChild
    \/ dir = DOWN /\ isLastChild

breakOut(position, dir, isFirstChild, isLastChild) ==
    /\ position.parentId # ""
    /\ \/ dir = UP /\ isFirstChild
       \/ dir = DOWN /\ isLastChild

swapTargetKey(dir, listPosition) ==
    IF dir = DOWN THEN listPosition + 1 ELSE listPosition - 1

sameParent(position, targetPosition) ==
    position.parentId = targetPosition.parentId

\* Which branch of moveItem a tick takes.
outcomeOf(posn, translate, listPosition, isLastChild, isFirstChild, v) ==
    IF noDirection(v) THEN "zeroVelocity"
    ELSE IF ~pastThreshold(translate) THEN "belowThreshold"
    ELSE IF listPosition \notin DOMAIN posn THEN "throw"
    ELSE IF breakOut(posn[listPosition], direction(v), isFirstChild,
                     isLastChild) THEN "escape"
    ELSE IF swapTargetKey(direction(v), listPosition) \notin DOMAIN posn
         THEN "noTarget"
    ELSE IF sameParent(posn[listPosition],
                       posn[swapTargetKey(direction(v), listPosition)])
         THEN "swap"
    ELSE "otherParent"

placement(clientId, removed, added) ==
    [clientId |-> clientId, originalParent |-> removed.removeParentId,
     targetId |-> added.targetId, targetIndex |-> added.targetIndex,
     isNull |-> FALSE]

\* Mutant: the dragged node is removed from the canonical tree in place.
moveItemInPlace(block, translate, listPosition, isLastChild, isFirstChild, velocity) ==
    LET clientId == block.clientId
        v == velocityGet(velocity)
        dir == direction(v)
        outcome == outcomeOf(positions, translate, listPosition, isLastChild,
                             isFirstChild, v)
        removed == removeItemFromTree(clientIdsTree, clientId)
        target == IF outcome = "escape"
                  THEN positions[listPosition].parentId
                  ELSE positions[swapTargetKey(dir, listPosition)].clientId
        added == addItemToTree(removed.newTree, target, block,
                               insertAfterFor(dir))
    IN /\ UNCHANGED <<draggingId, dropped, expandedState, inFlight, timers,
                      issued, drags, drops, toggles, call, heldParent,
                      owners>>
       /\ last' = [translate |-> translate, v |-> v, outcome |-> outcome]
       /\ IF outcome \in {"escape", "swap"}
          THEN /\ lastTarget' = placement(clientId, removed, added)
               /\ decided' = lastTarget'
               /\ tree' = added.newTree
               /\ clientIdsTree' = removed.newTree
               /\ Render
          ELSE UNCHANGED <<lastTarget, decided, tree, blocks, positions,
                           clientIdsTree>>

moveItem(block, translate, listPosition, isLastChild, isFirstChild, velocity) ==
    LET clientId == block.clientId
        v == velocityGet(velocity)
        dir == direction(v)
        outcome == outcomeOf(positions, translate, listPosition, isLastChild,
                             isFirstChild, v)
        removed == removeItemFromTree(clientIdsTree, clientId)
        target == IF outcome = "escape"
                  THEN positions[listPosition].parentId
                  ELSE positions[swapTargetKey(dir, listPosition)].clientId
        added == addItemToTree(removed.newTree, target, block,
                               insertAfterFor(dir))
    IN /\ UNCHANGED <<clientIdsTree, draggingId, dropped, expandedState,
                      inFlight, timers, issued, drags, drops, toggles, call,
                      heldParent, owners>>
       /\ last' = [translate |-> translate, v |-> v, outcome |-> outcome]
       /\ IF outcome \in {"escape", "swap"}
          THEN /\ lastTarget' = placement(clientId, removed, added)
               /\ decided' = lastTarget'
               /\ tree' = added.newTree
               /\ Render
          ELSE UNCHANGED <<lastTarget, decided, tree, blocks, positions>>

\* The last handler that ran was not a drag tick.
NoTick == [translate |-> 0, v |-> 0, outcome |-> ""]

\* A drag-update tick of the dragged row, if it is mounted.
dragTickOver(translates) ==
    /\ draggingId # ""
    /\ LET rows == ListViewBranch(blocks, expandedState) IN
       \E i \in 1..Len(rows), translate \in translates, velocity \in Velocities :
          /\ rows[i].clientId = draggingId
          /\ moveItem(rows[i].block, translate, rows[i].listPosition,
                      rows[i].position = rows[i].rowCount,
                      rows[i].position = 1, velocity)

dragTick == dragTickOver(Translates)

\* Ticks of a row dragged upwards or downwards past the threshold.
signedTick == dragTickOver(SignedTranslates)

\* setDraggingId( clientId ) by a mounted row, then the effect on draggingId.
dragStartWithin(limit) ==
    /\ draggingId = ""
    /\ drags < limit
    /\ LET rows == ListViewBranch(blocks, expandedState) IN
       \E i \in 1..Len(rows) :
          /\ draggingId' = rows[i].clientId
          /\ heldParent' = ParentIn(clientIdsTree, rows[i].clientId)
          /\ tree' = clientIdsTree
          /\ blocks' = clientIdsTree
          /\ positions' =
               renderPass(renderPass(positions,
                                     ListViewBranch(tree, expandedState), 1),
                          ListViewBranch(clientIdsTree, expandedState), 1)
    /\ drags' = drags + 1
    /\ last' = NoTick
    /\ UNCHANGED <<clientIdsTree, dropped, expandedState, lastTarget,
                   inFlight, timers, issued, drops, decided, toggles, call,
                   owners>>

dragStart == dragStartWithin(MaxDrags)

\* One more gesture than MaxDrags: a drag that follows an earlier drop.
dragStartAgain == dragStartWithin(MaxDrags + 1)

----------------------------------------------------------------------------
(* Drop committer *)

command(target) ==
    [clientId |-> target.clientId, originalParent |-> target.originalParent,
     targetId |-> target.targetId, targetIndex |-> target.targetIndex]

\* Mutant: the guard on lastTarget.current is missing.
dropItemUnguarded ==
    /\ dropped' = TRUE
    /\ lastTarget' = Null
    /\ inFlight' = Append(inFlight, command(lastTarget))
    /\ issued' = issued + 1

\* Mutant: lastTarget.current is not cleared.
dropItemKeepsTarget ==
    IF lastTarget = Null
    THEN UNCHANGED <<dropped, lastTarget, inFlight, issued>>
    ELSE /\ dropped' = TRUE
         /\ lastTarget' = lastTarget
         /\ inFlight' = Append(inFlight, command(lastTarget))
         /\ issued' = issued + 1

\* Mutant: the original parent is looked up in the canonical tree at drop.
dropItemRederivesParent ==
    IF lastTarget = Null
    THEN UNCHANGED <<dropped, lastTarget, inFlight, issued>>
    ELSE /\ dropped' = TRUE
         /\ lastTarget' = Null
         /\ inFlight' = Append(inFlight,
               [command(lastTarget) EXCEPT !.originalParent =
                  removeItemFromTree(clientIdsTree,
                                     lastTarget.clientId).removeParentId])
         /\ issued' = issued + 1

\* dropItem up to the await: the guard, the flag, the command.
dropItem ==
    IF lastTarget = Null
    THEN UNCHANGED <<dropped, lastTarget, inFlight, issued>>
    ELSE /\ dropped' = TRUE
         /\ lastTarget' = Null
         /\ inFlight' = Append(inFlight, command(lastTarget))
         /\ issued' = issued + 1

\* Gesture end: dropItem(), then setDraggingId( null ).
dragEnd ==
    /\ draggingId # ""
    /\ dropItem
    /\ draggingId' = ""
    /\ heldParent' = ""
    /\ owners' = IF issued' # issued
                 THEN [owners EXCEPT !.flight = Append(@, issued')]
                 ELSE owners
    /\ drops' = drops + 1
    /\ last' = NoTick
    /\ decided' = Null
    /\ UNCHANGED <<clientIdsTree, tree, expandedState, timers, drags, toggles,
                   call>>
    /\ Render

removeAt(s, i) == SubSeq(s, 1, i - 1) \o SubSeq(s, i + 1, Len(s))

\* The store applies a command and its promise resolves: dropItem resumes
\* after the await and sets the settling timer.
moveResolved ==
    \E i \in 1..Len(inFlight) :
       /\ clientIdsTree' = moveBlocksToPosition(clientIdsTree, inFlight[i])
       /\ inFlight' = removeAt(inFlight, i)
       /\ timers' = timers + 1
       /\ owners' = [flight |-> removeAt(owners.flight, i),
                     timers |-> Append(owners.timers, owners.flight[i])]
       /\ last' = NoTick
       /\ UNCHANGED <<tree, draggingId, dropped, expandedState, lastTarget,
                      issued, drags, drops, decided, toggles, call,
                   heldParent>>
       /\ Render

\* The promise rejects: the await throws and dropItem never resumes.
moveRejected ==
    \E i \in 1..Len(inFlight) :
       /\ inFlight' = removeAt(inFlight, i)
       /\ owners' = [owners EXCEPT !.flight = removeAt(@, i)]
       /\ last' = NoTick
       /\ UNCHANGED <<clientIdsTree, tree, draggingId, dropped,
                      expandedState, lastTarget, timers, issued, drags,
                      drops, decided, toggles, blocks, positions, call,
                   heldParent>>

\* A settling timer fires: setDropped( false ).
settle ==
    /\ timers > 0
    /\ timers' = timers - 1
    /\ owners' = [owners EXCEPT !.timers = Tail(@)]
    /\ dropped' = FALSE
    /\ last' = NoTick
    /\ UNCHANGED <<clientIdsTree, tree, draggingId, expandedState,
                   lastTarget, inFlight, issued, drags, drops, decided,
                   toggles, call,
                   heldParent>>
    /\ Render

----------------------------------------------------------------------------
(* Expand and collapse *)

toggle(type, clientId) ==
    /\ toggles < MaxToggles
    /\ toggles' = toggles + 1
    /\ expandedState' = dispatched(expandedState, type, clientId)
    /\ last' = NoTick
    /\ UNCHANGED <<clientIdsTree, tree, draggingId, dropped, lastTarget,
                   inFlight, timers, issued, drags, drops, decided, call,
                   heldParent, owners>>
    /\ Render

expand == \E clientId \in ToggleIds : toggle("expand", clientId)

collapse == \E clientId \in ToggleIds : toggle("collapse", clientId)

----------------------------------------------------------------------------
(* The state machine *)

\* No function has been applied directly.
NoCall == [op |-> ""]

\* The component as first rendered over a canonical tree and an expansion
\* state: nothing dragged, nothing pending.
Mounted ==
    /\ tree = clientIdsTree
    /\ blocks = clientIdsTree
    /\ draggingId = ""
    /\ dropped = FALSE
    /\ positions = renderPass([x \in {} |-> Null],
                              ListViewBranch(clientIdsTree, expandedState), 1)
    /\ lastTarget = Null
    /\ inFlight = <<>>
    /\ timers = 0
    /\ issued = 0
    /\ drags = 0
    /\ drops = 0
    /\ decided = Null
    /\ toggles = 0
    /\ last = NoTick
    /\ call = NoCall
    /\ heldParent = ""
    /\ owners = [flight |-> <<>>, timers |-> <<>>]

\* useReducer( expanded, {} )
NoExpansion == [x \in {} |-> TRUE]

Init ==
    /\ clientIdsTree \in InitTrees
    /\ expandedState = NoExpansion
    /\ Mounted

Handlers ==
    \/ dragTick
    \/ dragEnd
    \/ moveResolved
    \/ moveRejected
    \/ settle
    \/ expand
    \/ collapse

Next == dragStart \/ Handlers

NextRedrag == dragStartAgain \/ Handlers

\* Up to MaxDrags gestures.
Spec == Init /\ [][Next]_vars

\* Up to MaxDrags + 1 gestures: a drag may follow an earlier drop.
SpecRedrag == Init /\ [][NextRedrag]_vars

\* Timers fire, and the store settles every command, one way or the other.
FairSpec ==
    Spec /\ WF_vars(settle) /\ WF_vars(moveResolved \/ moveRejected)
----------------------------------------------------------------------------
(* The functions applied directly, on every bounded input *)

\* Everything of the component but the expansion state.
component ==
    <<clientIdsTree, tree, blocks, draggingId, dropped, positions,
      lastTarget, inFlight, timers, issued, drags, drops, decided, toggles,
      last, heldParent, owners>>

applyRemove ==
    \E id \in Ids \cup {Absent} :
       /\ call' = [op |-> "remove", id |-> id,
                   result |-> removeItemFromTree(clientIdsTree, id)]
       /\ UNCHANGED <<component, expandedState>>

applyAdd ==
    \E id \in Ids \cup {Absent}, item \in NewItems, insertAfter \in BOOLEAN :
       /\ call' = [op |-> "add", id |-> id, item |-> item,
                   insertAfter |-> insertAfter,
                   result |-> addItemToTree(clientIdsTree, id, item,
                                            insertAfter)]
       /\ UNCHANGED <<component, expandedState>>

\* Remove, then insert what was removed, as a tick does.
applyMove ==
    \E id \in IdsOf(clientIdsTree), target \in Ids \cup {Absent}, insertAfter \in BOOLEAN :
       LET removed == removeItemFromTree(clientIdsTree, id)
           block == nodeOf(clientIdsTree, id).block
       IN /\ call' = [op |-> "move", id |-> id, target |-> target,
                      insertAfter |-> insertAfter, removed |-> removed,
                      result |-> addItemToTree(removed.newTree, target,
                                               block, insertAfter)]
          /\ UNCHANGED <<component, expandedState>>

TreeInit ==
    /\ clientIdsTree \in Trees
    /\ expandedState = NoExpansion
    /\ Mounted

TreeNext == applyRemove \/ applyAdd \/ applyMove

\* removeItemFromTree and addItemToTree over every tree of Trees.
TreeSpec == TreeInit /\ [][TreeNext]_vars

\* One render of the branch over the tree and the expansion state.
applyRows ==
    /\ call' = [op |-> "rows",
                rows |-> ListViewBranch(clientIdsTree, expandedState)]
    /\ UNCHANGED <<component, expandedState>>

RowsInit ==
    /\ clientIdsTree \in Trees
    /\ expandedState \in ExpansionStates
    /\ Mounted

\* ListViewBranch over every tree of Trees and every expansion state.
RowsSpec == RowsInit /\ [][applyRows]_vars

\* The action each identity was last dispatched with, kept next to the
\* dispatch that ran last.
lastFor == IF call.op = "dispatch" THEN call.lastFor ELSE [x \in {} |-> ""]

applyHandler(type) ==
    \E clientId \in Ids \cup {""} :
       /\ expandedState' = dispatched(expandedState, type, clientId)
       /\ call' = [op |-> "dispatch", type |-> type, clientId |-> clientId,
                   lastFor |-> IF clientId = "" THEN lastFor
                               ELSE (clientId :> type) @@ lastFor]
       /\ UNCHANGED component

applyExpand == applyHandler("expand")

applyCollapse == applyHandler("collapse")

\* The reducer given an action of a type it does not know.
applyReducer ==
    \E clientId \in Ids :
       /\ expandedState' = expanded(expandedState,
                                    [type |-> "toggle", clientId |-> clientId])
       /\ call' = [op |-> "dispatch", type |-> "toggle",
                   clientId |-> clientId, lastFor |-> lastFor]
       /\ UNCHANGED component

ExpansionNext == applyExpand \/ applyCollapse \/ applyReducer

\* Any sequence of expand, collapse and unknown actions from the empty
\* mapping.
ExpansionSpec == Init /\ [][ExpansionNext]_vars

----------------------------------------------------------------------------
(* Vocabulary of the properties *)

IdCount(t, id) ==
    LET ns == Nodes(t) IN Cardinality({i \in 1..Len(ns) : ns[i].clientId = id})

SameIdentities(t1, t2) == \A id \in Ids : IdCount(t1, id) = IdCount(t2, id)

\* The rows mounted before the step, and those of the dragged block.
RowsNow == ListViewBranch(blocks, expandedState)

DraggedRows == {i \in 1..Len(RowsNow) : RowsNow[i].clientId = draggingId}

\* The step is a drag tick (a tick that changes nothing at all, not even
\* the record of the last tick, is a stuttering step).
TickStep == last'.outcome # ""

Decision == tree' # tree \/ lastTarget' # lastTarget

TreeABCD == <<Block("A", <<Leaf("B"), Leaf("C")>>), Leaf("D")>>
TreeNested == <<Block("A", <<Block("B", <<Leaf("C")>>)>>)>>

----------------------------------------------------------------------------
(* C1: in every reachable state the speculative tree holds the same       *)
(* multiset of node identities as the canonical tree: moveItem only       *)
(* rearranges nodes, it never drops or duplicates one.                    *)
C1_SameIdentityMultiset == SameIdentities(tree, clientIdsTree)

(* C2: a dropItem call with no Pending Placement issues no move command   *)
(* and does not set the dropped flag; a dropItem call with a Pending      *)
(* Placement issues exactly one command; no other step issues a command.  *)
C2_OneCommandPerPlacedDrop ==
    [][ /\ (drops' = drops + 1 /\ lastTarget = Null)
            => (issued' = issued /\ inFlight' = inFlight /\ dropped' = dropped)
        /\ (drops' = drops + 1 /\ lastTarget # Null)
            => (issued' = issued + 1 /\ Len(inFlight') = Len(inFlight) + 1)
        /\ (drops' = drops) => (issued' = issued) ]_vars

\* Two drops were made and only one of them had a placement to commit.
C2_Witness == drops = 2 /\ issued = 1 /\ lastTarget = Null

(* C3: the command issued at drop carries the identity, original parent,  *)
(* target parent and target index recorded by the latest qualifying tick  *)
(* of the drag, and every command issued is such a command.               *)
C3_LatestPlacementCommitted ==
    [][ (issued' # issued) =>
          /\ decided # Null
          /\ inFlight' = Append(inFlight,
                [clientId |-> decided.clientId,
                 originalParent |-> decided.originalParent,
                 targetId |-> decided.targetId,
                 targetIndex |-> decided.targetIndex]) ]_vars

\* C was promoted twice in one drag (out of B, then out of A); the command
\* in flight is the second placement.
C3_Witness ==
    /\ clientIdsTree = TreeNested
    /\ inFlight = <<[clientId |-> "C", originalParent |-> "B",
                     targetId |-> "", targetIndex |-> 1]>>

(* C4: whenever the dropped flag is true it is eventually cleared, also   *)
(* when the store never completes or rejects the move command.            *)
C4_DroppedEventuallyCleared == dropped ~> ~dropped

(* C5: the tree handed to the renderer is the speculative tree exactly    *)
(* when a drag is in progress or the dropped flag is true, and the        *)
(* canonical tree otherwise.                                              *)
C5_RenderedTree ==
    /\ (draggingId # "" \/ dropped) => blocks = tree
    /\ (draggingId = "" /\ ~dropped) => blocks = clientIdsTree

\* After a commit and the expiry of a settling window, with no drag in
\* progress, the renderer shows the canonical tree although the speculative
\* tree differs from it.
C5_Witness ==
    /\ draggingId = ""
    /\ ~dropped
    /\ issued > 0
    /\ tree # clientIdsTree
    /\ blocks = clientIdsTree

(* C6: escape-to-parent fires on a tick only if the dragged row has a     *)
(* non-root parent and is the first child with direction up or the last   *)
(* child with direction down.                                             *)
C6_EscapeOnlyAtEdgeOfContainer ==
    [][ (TickStep /\ last'.outcome = "escape") =>
          \E i \in DraggedRows :
             /\ RowsNow[i].parentId # ""
             /\ \/ last'.v < 0 /\ RowsNow[i].position = 1
                \/ last'.v > 0 /\ RowsNow[i].position = RowsNow[i].rowCount
      ]_vars

\* An escape fired and promoted the dragged block to the root level.
C6_Witness ==
    /\ last.outcome = "escape"
    /\ lastTarget # Null
    /\ lastTarget.targetId = ""
    /\ lastTarget.originalParent # ""

(* C7: a sibling swap fires on a tick only if the row adjacent to the     *)
(* dragged row (next when moving down, previous when moving up) is        *)
(* mounted and has the dragged row's parent; a tick whose adjacent row    *)
(* has another parent and that does not qualify for escape changes        *)
(* neither the speculative tree nor the Pending Placement.                *)
C7_SwapOnlyWithAdjacentSibling ==
    [][ /\ (TickStep /\ last'.outcome = "swap") =>
             \E i \in DraggedRows, j \in 1..Len(RowsNow) :
                /\ RowsNow[j].listPosition = RowsNow[i].listPosition
                                             + (IF last'.v > 0 THEN 1 ELSE -1)
                /\ RowsNow[j].parentId = RowsNow[i].parentId
        /\ (TickStep /\ last'.outcome = "otherParent") => ~Decision ]_vars

(* C8: when escape-to-parent fires, the candidate tree holds the dragged  *)
(* node with its subtree as the sibling immediately after (down) or       *)
(* before (up) the parent its row had, no longer among that parent's      *)
(* children, and the Pending Placement records the node, its parent in    *)
(* the canonical tree, and the parent and index it has in the candidate.  *)
C8_EscapePlacesNextToParent ==
    [][ (TickStep /\ last'.outcome = "escape") =>
          \E i \in DraggedRows :
             LET ns == Nodes(tree')
                 cs == Nodes(clientIdsTree)
             IN \E a \in 1..Len(ns), b \in 1..Len(ns), c \in 1..Len(cs) :
                   /\ ns[a].clientId = draggingId
                   /\ ns[a].block = RowsNow[i].block
                   /\ ns[b].clientId = RowsNow[i].parentId
                   /\ ns[a].parentId = ns[b].parentId
                   /\ ns[a].index = ns[b].index
                                    + (IF last'.v > 0 THEN 1 ELSE -1)
                   /\ \A k \in 1..Len(ns[b].block.innerBlocks) :
                         ns[b].block.innerBlocks[k].clientId # draggingId
                   /\ cs[c].clientId = draggingId
                   /\ lastTarget' = [clientId |-> draggingId,
                                     originalParent |-> cs[c].parentId,
                                     targetId |-> ns[a].parentId,
                                     targetIndex |-> ns[a].index,
                                     isNull |-> FALSE] ]_vars

\* [A[B, C], D] with last child C dragged down: [A[B], C, D].
C8_Witness ==
    /\ clientIdsTree = TreeABCD
    /\ draggingId = "C"
    /\ last.outcome = "escape"
    /\ last.v > 0
    /\ tree = <<Block("A", <<Leaf("B")>>), Leaf("C"), Leaf("D")>>
    /\ lastTarget = [clientId |-> "C", originalParent |-> "A",
                     targetId |-> "", targetIndex |-> 1, isNull |-> FALSE]

(* C9 as claimed: a tick whose absolute translation is below one row      *)
(* height (ITEM_HEIGHT) makes no structural decision.                     *)
C9_NoDecisionBelowRowHeight ==
    [][ (TickStep /\ Abs(last'.translate) < ITEM_HEIGHT) => ~Decision ]_vars

(* C9 as amended: a tick whose absolute translation is at most half a row *)
(* height (ITEM_HEIGHT / 2) makes no structural decision.                 *)
C9_NoDecisionUpToHalfRowHeight ==
    [][ (TickStep /\ 2 * Abs(last'.translate) <= ITEM_HEIGHT) => ~Decision ]_vars

\* A tick with a direction ran at exactly half a row height over a pending
\* drag and was skipped.
C9_Witness ==
    /\ last.outcome = "belowThreshold"
    /\ 2 * Abs(last.translate) = ITEM_HEIGHT
    /\ draggingId # ""

(* C10: a tick with zero or no velocity, and a tick past the threshold    *)
(* whose adjacent ledger position is missing and that does not qualify    *)
(* for escape, change neither the speculative tree nor the Pending        *)
(* Placement; no tick raises an exception.                                *)
C10_AmbiguousTicksSkipped ==
    [][ TickStep =>
          /\ last'.outcome # "throw"
          /\ (last'.v = 0) => ~Decision
          /\ (\E i \in DraggedRows :
                /\ last'.v # 0
                /\ 2 * Abs(last'.translate) > ITEM_HEIGHT
                /\ (RowsNow[i].listPosition
                      + (IF last'.v > 0 THEN 1 ELSE -1)) \notin DOMAIN positions
                /\ ~(/\ RowsNow[i].parentId # ""
                     /\ \/ last'.v < 0 /\ RowsNow[i].position = 1
                        \/ last'.v > 0
                           /\ RowsNow[i].position = RowsNow[i].rowCount))
             => ~Decision ]_vars

\* The last row was dragged down past the threshold with no ledger entry
\* below it, after an earlier tick of the drag had recorded a placement.
C10_Witness ==
    /\ last.outcome = "noTarget"
    /\ lastTarget # Null

----------------------------------------------------------------------------
(* Vocabulary of the tree-function properties *)

\* Every node of a tree in depth-first order with its parent: this fixes
\* the parent of every node and the order of every list of siblings.
Profile(t) ==
    [i \in 1..Len(Nodes(t)) |-> <<Nodes(t)[i].clientId, Nodes(t)[i].parentId>>]

\* The depth-first position of an identity, and the size of its subtree.
PlaceOf(t, id) == CHOOSE i \in 1..Len(Nodes(t)) : Nodes(t)[i].clientId = id

SizeOf(t, id) == 1 + Len(Nodes(nodeOf(t, id).block.innerBlocks))

\* The profile of a tree once the node id and its subtree are left out.
ProfileWithout(t, id) ==
    SubSeq(Profile(t), 1, PlaceOf(t, id) - 1)
      \o SubSeq(Profile(t), PlaceOf(t, id) + SizeOf(t, id), Len(Nodes(t)))

(* C11: for every tree with unique identities and every id present in it, *)
(* removeItemFromTree returns the tree without that node and its subtree, *)
(* every other node keeping its parent and its order, and returns the     *)
(* identity of the node's parent, '' for a top-level node.                *)
C11_RemoveExcludesNodeAndNamesParent ==
    (call.op = "remove" /\ call.id \in IdsOf(clientIdsTree)) =>
       /\ Profile(call.result.newTree) = ProfileWithout(clientIdsTree, call.id)
       /\ call.result.removeParentId = nodeOf(clientIdsTree, call.id).parentId

\* B is removed with its child C from under A, leaving A and D.
C11_Witness ==
    /\ clientIdsTree = <<Block("A", <<Block("B", <<Leaf("C")>>)>>), Leaf("D")>>
    /\ call = [op |-> "remove", id |-> "B",
               result |-> [newTree |-> <<Leaf("A"), Leaf("D")>>,
                           removeParentId |-> "A"]]

\* In the tree of a result the item is the sibling next to the target, on
\* the side asked for, and the result names the item's parent and index.
InsertedNextTo(result, target, item, insertAfter) ==
    LET a == nodeOf(result.newTree, item.clientId)
        b == nodeOf(result.newTree, target)
    IN /\ IdCount(result.newTree, item.clientId) = 1
       /\ a.block = item
       /\ a.parentId = b.parentId
       /\ a.index = b.index + (IF insertAfter THEN 1 ELSE -1)
       /\ result.targetId = a.parentId
       /\ result.targetIndex = a.index

(* C12: for every tree with unique identities and every target present in *)
(* it, addItemToTree returns a tree in which the inserted node is the     *)
(* sibling immediately after (insertAfter) or immediately before the      *)
(* target, and returns the identity of the target's parent ('' for root)  *)
(* and the index of the inserted node among that parent's children.       *)
C12_AddPlacesNextToTarget ==
    /\ (call.op = "add" /\ call.id \in IdsOf(clientIdsTree)) =>
          InsertedNextTo(call.result, call.id, call.item, call.insertAfter)
    /\ (call.op = "move" /\ call.target \in IdsOf(call.removed.newTree)) =>
          InsertedNextTo(call.result, call.target,
                         nodeOf(clientIdsTree, call.id).block,
                         call.insertAfter)

\* A node with a child is inserted before C, two levels down: it lands at
\* index 0 of B, and C follows it.
C12_Witness ==
    /\ clientIdsTree = <<Block("A", <<Block("B", <<Leaf("C")>>)>>), Leaf("D")>>
    /\ call.op = "add"
    /\ call.id = "C"
    /\ ~call.insertAfter
    /\ call.item = Block("E", <<Leaf("F")>>)
    /\ call.result.targetId = "B"
    /\ call.result.targetIndex = 0
    /\ call.result.newTree =
         <<Block("A", <<Block("B", <<Block("E", <<Leaf("F")>>), Leaf("C")>>)>>),
           Leaf("D")>>

(* C13: for every tree T, every id present in T with node N, and every    *)
(* target present in the tree left after removing id, inserting N before  *)
(* or after that target yields a tree with the same multiset of           *)
(* identities as T.                                                       *)
C13_RemoveThenInsertKeepsIdentities ==
    (call.op = "move" /\ call.target \in IdsOf(call.removed.newTree)) =>
       /\ SameIdentities(call.result.newTree, clientIdsTree)
       /\ Len(Nodes(call.result.newTree)) = Len(Nodes(clientIdsTree))

\* B is moved with its child C from under A to the root, after D.
C13_Witness ==
    /\ clientIdsTree = <<Block("A", <<Block("B", <<Leaf("C")>>)>>), Leaf("D")>>
    /\ call.op = "move"
    /\ call.id = "B"
    /\ call.target = "D"
    /\ call.insertAfter
    /\ call.result.newTree =
         <<Leaf("A"), Leaf("D"), Block("B", <<Leaf("C")>>)>>

(* C14: removeItemFromTree called with an identity absent from the tree   *)
(* returns a tree equal to the input, in shape and in identities, and the *)
(* empty parent sentinel ''.                                              *)
C14_RemoveAbsentIsSilent ==
    (call.op = "remove" /\ call.id \notin IdsOf(clientIdsTree)) =>
       /\ call.result.newTree = clientIdsTree
       /\ call.result.removeParentId = ""

\* An identity no node carries is removed from a tree three levels deep.
C14_Witness ==
    /\ clientIdsTree = <<Block("A", <<Block("B", <<Leaf("C")>>)>>), Leaf("D")>>
    /\ call.op = "remove"
    /\ call.id = Absent
    /\ call.result.newTree = clientIdsTree

(* C15: insertion relative to a target absent from the tree returns the   *)
(* tree it was given, and a drag tick whose target is absent changes      *)
(* neither the content of the displayed tree nor the Pending Placement    *)
(* that a later drop commits. (addItemToTree reports an index of -1       *)
(* exactly when no node matched the target.)                              *)
C15_AbsentTargetIsNoOp ==
    [][ /\ (call'.op = "add" /\ call'.id \notin IdsOf(clientIdsTree)) =>
              call'.result.newTree = clientIdsTree
        /\ (TickStep /\ last'.outcome \in {"escape", "swap"}
               /\ lastTarget'.targetIndex = -1) =>
              /\ SameIdentities(blocks', blocks)
              /\ lastTarget' = lastTarget ]_vars

EntriesFollowLastAction ==
    /\ DOMAIN expandedState = DOMAIN lastFor
    /\ \A id \in DOMAIN lastFor : expandedState[id] = (lastFor[id] = "expand")
    /\ \A id \in Ids \ DOMAIN lastFor : isExpandedIn(expandedState, id)

(* C17: expansion state starts as the empty mapping; after any sequence   *)
(* of actions state[id] is true if the last action for id was expand,     *)
(* false if it was collapse, absent (expanded) if id was never acted on;  *)
(* no action removes an entry or changes the entry of another id; an      *)
(* action with an empty identity or an unknown type changes nothing.      *)
C17_ExpansionFollowsLastAction ==
    /\ expandedState = NoExpansion
    /\ []EntriesFollowLastAction
    /\ [][ /\ DOMAIN expandedState \subseteq DOMAIN expandedState'
           /\ \A id \in DOMAIN expandedState :
                 (call'.op = "dispatch" /\ id # call'.clientId) =>
                    expandedState'[id] = expandedState[id]
           /\ (call'.op = "dispatch"
                 /\ (call'.clientId = ""
                       \/ call'.type \notin {"expand", "collapse"})) =>
                 expandedState' = expandedState ]_vars

\* A was last expanded, B was last collapsed, and the action that ran last,
\* of an unknown type, was for C.
C17_Witness ==
    /\ call.op = "dispatch"
    /\ call.type = "toggle"
    /\ call.clientId = "C"
    /\ call.lastFor = [A |-> "expand", B |-> "collapse"]
    /\ expandedState = [A |-> TRUE, B |-> FALSE]

----------------------------------------------------------------------------
(* Vocabulary of the row-numbering property *)

\* A tree with the inner blocks of one node taken away.
RECURSIVE asLeaf(_, _)
asLeaf(t, id) ==
    [i \in 1..Len(t) |->
       IF t[i].clientId = id THEN Leaf(id)
       ELSE [t[i] EXCEPT !.innerBlocks = asLeaf(@, id)]]

\* The identity and the row number of every mounted row, in render order.
Numbering(rows) ==
    [i \in 1..Len(rows) |-> <<rows[i].clientId, rows[i].listPosition>>]

\* The identities whose rows are mounted with hidden inner blocks.
CollapsedBranches(rows, state) ==
    {rows[i].clientId : i \in {j \in 1..Len(rows) :
                                /\ Len(rows[j].block.innerBlocks) > 0
                                /\ ~isExpandedIn(state, rows[j].clientId)}}

----------------------------------------------------------------------------
\* A tree is another one with the node id, subtree included, moved to some
\* place: id is there once with the same subtree, and the other nodes have
\* the parents and the order they had.
Relocated(candidate, canonical, id) ==
    /\ IdCount(candidate, id) = 1
    /\ IdCount(canonical, id) = 1
    /\ nodeOf(candidate, id).block = nodeOf(canonical, id).block
    /\ ProfileWithout(candidate, id) = ProfileWithout(canonical, id)

(* C19: every qualifying tick computes the candidate from the canonical   *)
(* tree: after the tick the speculative tree is the canonical tree with   *)
(* only the dragged node (and its subtree) relocated, every other node    *)
(* keeping its parent and its order among the others.                     *)
C19_CandidateIsCanonicalWithOneMove ==
    [][ (TickStep /\ last'.outcome \in {"escape", "swap"}) =>
          Relocated(tree', clientIdsTree, draggingId) ]_vars

----------------------------------------------------------------------------
----------------------------------------------------------------------------
(* C21: a Pending Placement exists only between a qualifying tick past    *)
(* the threshold and the next drop: none at mount, none right after any   *)
(* dropItem, none whenever no drag is in progress, and one appears or     *)
(* changes only by such a tick, so that the drop of a later drag never    *)
(* commits the placement of an earlier one.                               *)
C21_PlacementLivesFromTickToDrop ==
    /\ lastTarget = Null
    /\ [](draggingId = "" => lastTarget = Null)
    /\ [][ /\ (drops' = drops + 1) => lastTarget' = Null
           /\ (lastTarget' # lastTarget /\ lastTarget' # Null) =>
                 /\ TickStep
                 /\ last'.outcome \in {"escape", "swap"}
                 /\ 2 * Abs(last'.translate) > ITEM_HEIGHT
           /\ (issued' # issued) => decided # Null ]_vars

\* A second drag is under way after the first one was committed; its last
\* tick found no row to swap with and no placement is pending.
C21_Witness ==
    /\ drags = 2
    /\ drops = 1
    /\ issued = 1
    /\ draggingId # ""
    /\ last.outcome = "noTarget"
    /\ lastTarget = Null

(* C22: the settling window starts when the move command is issued: the  *)
(* step that issues the command also sets the timer that will clear the   *)
(* dropped flag, whether or not the command has completed.                *)
C22_WindowStartsWhenCommandIssued ==
    [][ (issued' # issued) => timers' = timers + 1 ]_vars

(* C23: a settling timer left over from an earlier drop is harmless to a  *)
(* later drag: when it fires while a drag is in progress the tree shown   *)
(* does not change, and it never clears a dropped flag that a later drop  *)
(* has set, which only the timer of the latest command may clear.         *)
C23_EarlierWindowIsAbandoned ==
    [][ (timers' = timers - 1) =>
           /\ (draggingId # "" => blocks' = blocks)
           /\ (dropped /\ ~dropped') => Head(owners.timers) = issued ]_vars

----------------------------------------------------------------------------
\* The ledger entry under this key was written by a row of the current pass.
WrittenThisPass(key) ==
    \E j \in 1..Len(RowsNow) :
       /\ RowsNow[j].listPosition = key
       /\ key \in DOMAIN positions
       /\ positions[key] = rowEntry(RowsNow[j])

(* C24: stale ledger entries are ignored by lookups: whenever a tick       *)
(* changes the speculative tree or the Pending Placement, the entry it    *)
(* read for the dragged row, and the entry it read for the row to swap    *)
(* with, were written by rows rendered in the current pass.               *)
C24_StaleEntriesAreIgnored ==
    [][ (TickStep /\ Decision) =>
          \A i \in DraggedRows :
             /\ WrittenThisPass(RowsNow[i].listPosition)
             /\ last'.outcome = "swap" =>
                   WrittenThisPass(swapTargetKey(direction(last'.v),
                                                 RowsNow[i].listPosition)) ]_vars

(* C25: the committed move reproduces the speculation: at a drop that     *)
(* issues a command, applying that command to the canonical tree (remove  *)
(* the node from its original parent, insert it at the target index of    *)
(* the target parent) yields the speculative tree displayed at the drop.  *)
C25_CommandReproducesSpeculation ==
    [][ (issued' # issued) =>
          moveBlocksToPosition(clientIdsTree, inFlight'[Len(inFlight')])
             = blocks ]_vars

----------------------------------------------------------------------------
(* C26: every Pending Placement recorded by a tick is well-formed: its    *)
(* targetIndex is at least 0 and at most the number of other children of  *)
(* the target parent, its targetId is the root or a node of the candidate *)
(* tree, its originalParent is the root or a node of the canonical tree,  *)
(* and in the candidate tree published with it the dragged node sits at   *)
(* index targetIndex among the children of targetId.                      *)
C26_PlacementWellFormed ==
    [][ (TickStep /\ last'.outcome \in {"escape", "swap"}) =>
          /\ lastTarget' # Null
          /\ lastTarget'.clientId = draggingId
          /\ lastTarget'.targetIndex >= 0
          /\ lastTarget'.targetIndex
                <= childrenOf(withoutNode(tree', draggingId),
                              lastTarget'.targetId)
          /\ lastTarget'.targetId \in IdsOf(tree') \cup {""}
          /\ lastTarget'.originalParent \in IdsOf(clientIdsTree) \cup {""}
          /\ IdCount(tree', draggingId) = 1
          /\ nodeOf(tree', draggingId).parentId = lastTarget'.targetId
          /\ nodeOf(tree', draggingId).index = lastTarget'.targetIndex ]_vars

(* C27: a later command stays consistent with the store: when the store   *)
(* applies the command of a second or later drop, the original parent it  *)
(* carries is the parent its node has in the canonical tree at that       *)
(* moment, whatever was applied before it.                                *)
C27_LaterCommandMatchesStore ==
    [][ \A i \in 1..Len(inFlight) :
           ( /\ owners'.flight = removeAt(owners.flight, i)
             /\ timers' = timers + 1
             /\ owners.flight[i] > 1 ) =>
              inFlight[i].originalParent
                 = ParentIn(clientIdsTree, inFlight[i].clientId) ]_vars

----------------------------------------------------------------------------
(* The translate-delta variant of the drag controller *)

NotFound == [found |-> FALSE, parentId |-> "", index |-> -1]

RECURSIVE findCurrentPositionLoop(_, _, _, _)
findCurrentPositionLoop(t, id, parentId, index) ==
    IF index > Len(t) THEN NotFound
    ELSE LET block == t[index] IN
         IF block.clientId = id
         THEN [found |-> TRUE, parentId |-> parentId, index |-> index - 1]
         ELSE LET match == IF Len(block.innerBlocks) > 0
                           THEN findCurrentPositionLoop(block.innerBlocks, id,
                                                        block.clientId, 1)
                           ELSE NotFound
              IN IF match.found THEN match
                 ELSE findCurrentPositionLoop(t, id, parentId, index + 1)

findCurrentPosition(t, id) == findCurrentPositionLoop(t, id, "", 1)

RECURSIVE removeItemFromTreeDeltaLoop(_, _, _, _)
removeItemFromTreeDeltaLoop(t, id, index, newTree) ==
    IF index > Len(t) THEN newTree
    ELSE LET block == t[index] IN
         IF block.clientId # id
         THEN IF Len(block.innerBlocks) > 0
              THEN removeItemFromTreeDeltaLoop(t, id, index + 1,
                      Append(newTree,
                             [block EXCEPT !.innerBlocks =
                                 removeItemFromTreeDeltaLoop(@, id, 1, <<>>)]))
              ELSE removeItemFromTreeDeltaLoop(t, id, index + 1,
                                               Append(newTree, block))
         ELSE removeItemFromTreeDeltaLoop(t, id, index + 1, newTree)

removeItemFromTreeDelta(t, id) == removeItemFromTreeDeltaLoop(t, id, 1, <<>>)

RECURSIVE addItemToTreeDeltaLoop(_, _, _, _, _, _)
addItemToTreeDeltaLoop(t, id, item, insertAfter, index, newTree) ==
    IF index > Len(t) THEN newTree
    ELSE LET block == t[index] IN
         IF block.clientId = id
         THEN addItemToTreeDeltaLoop(t, id, item, insertAfter, index + 1,
                 IF insertAfter THEN newTree \o <<block, item>>
                                ELSE newTree \o <<item, block>>)
         ELSE IF Len(block.innerBlocks) > 0
              THEN addItemToTreeDeltaLoop(t, id, item, insertAfter, index + 1,
                      Append(newTree,
                             [block EXCEPT !.innerBlocks =
                                 addItemToTreeDeltaLoop(@, id, item,
                                                        insertAfter, 1, <<>>)]))
              ELSE addItemToTreeDeltaLoop(t, id, item, insertAfter, index + 1,
                                          Append(newTree, block))

addItemToTreeDelta(t, id, item, insertAfter) ==
    addItemToTreeDeltaLoop(t, id, item, insertAfter, 1, <<>>)

\* What moveItem of the variant leaves behind: whether it decided, its
\* lastTarget.current and the tree it publishes.
moveItemDelta(canonical, posn, block, listPosition, translate) ==
    LET clientId == block.clientId
        movingDown == translate > 0
        key == IF movingDown THEN listPosition + 1 ELSE listPosition - 1
    IN IF ~(2 * Abs(translate) > ITEM_HEIGHT) \/ key \notin DOMAIN posn
       THEN [decides |-> FALSE]
       ELSE [decides |-> TRUE,
             lastTarget |-> [clientId |-> clientId,
                             targetPosition |-> posn[key],
                             movingDown |-> movingDown],
             newTree |-> addItemToTreeDelta(
                            removeItemFromTreeDelta(canonical, clientId),
                            posn[key].clientId, block, movingDown)]

\* Mutant: the target index is not shifted when moving down.
dropItemDeltaSameIndex(canonical, target) ==
    LET found == findCurrentPosition(
                    removeItemFromTreeDelta(canonical, target.clientId),
                    target.targetPosition.clientId)
        current == findCurrentPosition(canonical, target.clientId)
    IN [defined |-> found.found /\ current.found,
        clientId |-> target.clientId,
        originalParent |-> current.parentId,
        targetId |-> found.parentId,
        targetIndex |-> found.index]

\* The command dropItem of the variant issues for a lastTarget.current; a
\* position that is not found gives undefined fields (defined is FALSE).
dropItemDelta(canonical, target) ==
    LET found == findCurrentPosition(
                    removeItemFromTreeDelta(canonical, target.clientId),
                    target.targetPosition.clientId)
        current == findCurrentPosition(canonical, target.clientId)
    IN [defined |-> found.found /\ current.found,
        clientId |-> target.clientId,
        originalParent |-> current.parentId,
        targetId |-> found.parentId,
        targetIndex |-> IF target.movingDown THEN found.index + 1
                        ELSE found.index]

\* One drag over every tree of Trees, every block expanded, with ticks in
\* both directions, up to the drop.
VariantNext == dragStart \/ signedTick \/ dragEnd

VariantSpec == TreeInit /\ [][VariantNext]_vars

\* A row of the dragged row's parent is mounted next to it, on the side the
\* tick moves to.
AdjacentSibling(i, v) ==
    \E j \in 1..Len(RowsNow) :
       /\ RowsNow[j].listPosition
             = RowsNow[i].listPosition + (IF v > 0 THEN 1 ELSE -1)
       /\ RowsNow[j].parentId = RowsNow[i].parentId

(* C28: the two variants agree on sibling swaps: on a tick past the       *)
(* threshold whose velocity has the sign of its translation, with a row   *)
(* of the same parent next to the dragged row and no escape, the          *)
(* velocity-based variant publishes the tree the translate-delta variant  *)
(* computes, and the placement it records is, as a command, the one the   *)
(* variant's dropItem issues over the same canonical tree; the drop       *)
(* issues the recorded placement as it is.                                *)
C28_VariantsAgreeOnSiblingSwaps ==
    [][ /\ \A i \in DraggedRows :
             ( /\ TickStep
               /\ 2 * Abs(last'.translate) > ITEM_HEIGHT
               /\ last'.v * last'.translate > 0
               /\ last'.outcome # "escape"
               /\ AdjacentSibling(i, last'.v) ) =>
                LET delta == moveItemDelta(clientIdsTree, positions,
                                           RowsNow[i].block,
                                           RowsNow[i].listPosition,
                                           last'.translate)
                    issuedByDelta == dropItemDelta(clientIdsTree,
                                                   delta.lastTarget)
                IN /\ delta.decides
                   /\ last'.outcome = "swap"
                   /\ tree' = delta.newTree
                   /\ issuedByDelta.defined
                   /\ command(lastTarget')
                        = [clientId |-> issuedByDelta.clientId,
                           originalParent |-> issuedByDelta.originalParent,
                           targetId |-> issuedByDelta.targetId,
                           targetIndex |-> issuedByDelta.targetIndex]
        /\ (issued' # issued) =>
              inFlight'[Len(inFlight')] = command(lastTarget) ]_vars

\* A sibling swap upwards moved a block with inner blocks; its placement
\* was committed as recorded.
C28_Witness ==
    /\ issued = 1
    /\ drops = 1
    /\ inFlight # <<>>
    /\ inFlight[1].targetIndex = 0
    /\ inFlight[1].clientId \in IdsOf(tree)
    /\ nodeOf(tree, inFlight[1].clientId).block.innerBlocks # <<>>
    /\ tree # clientIdsTree

====
